---- MODULE Spec2Model ----
(***************************************************************************)
(* Model of the serial engine of gattii: the worker thread spawned by      *)
(* SerialThread::new in src/src/lib.rs, the command queue feeding it, the  *)
(* responses and wake callbacks it produces, and the device directory it   *)
(* scans.  One loop iteration ("tick") of the thread is two steps:         *)
(*   pc = "cmd"  try_recv and the command arm             (lib.rs 115-261) *)
(*   pc = "io"   port read, log write, pacer step, port scan and the sleep *)
(*               that ends the tick                       (lib.rs 264-389) *)
(* Time is counted in milliseconds.  Option<T> is a sequence: <<>> is None *)
(* and <<x>> is Some(x).  Port names and file paths are small integers;    *)
(* their order is the lexicographic order of the names.                    *)
(***************************************************************************)
EXTENDS Integers, Sequences, FiniteSets, TLC

\* ------------------------------------------------------------------ bounds
MaxCommands == 3      \* commands the client issues in one run
MaxQueue == 1         \* commands waiting in to_port_chan at once
MaxPending == 2       \* the same, for the client that calls the send_*_cmd methods
MaxPacingCommands == 2  \* commands the client of the pacing specification issues
MaxBacklog == 2       \* responses waiting in from_port_chan when the thread takes a step
Ports == {1, 2}       \* device names that exist in the world
Paths == {1}          \* file paths the client names
Bauds == {9600, 300}  \* baud rates the client asks for
FastBauds == {4000000}  \* and a rate of the fast links, for the pacer
FileSizes == {0, 12}  \* sizes fs::metadata reports
RxLens == {0, 3}      \* byte counts a port read returns
TickDurations == {5500}  \* lengths of one loop iteration, each >= loop_time
LargeFileSizes == {10000}        \* size of the file of the pacing specification
PacingDurations == {5500, 6000}  \* tick lengths of the pacing specification
Removable == {1}      \* devices that are plugged and unplugged during a run

\* baud_rate strings the client passes, as sequences of characters
BaudStrings ==
    {<<"9", "6", "0", "0">>, <<"3", "0", "0">>, <<"+", "3", "0", "0">>, <<>>,
     <<"9", "6", "k">>, <<"4", "2", "9", "4", "9", "6", "7", "2", "9", "6">>}

\* ------------------------------------------------- constants of the source
loop_time == 10           \* ms
port_scan_time == 5000    \* Duration::from_secs(5), in ms
BufLen == 1000            \* serial_buf_rx = [0; 1000]
ProgressStep == 5         \* percentage >= last_percentage + 5
U8Max == 255
U32MaxDiv10 == 429496729  \* u32::MAX = 4294967295, as 10 * U32MaxDiv10 + U32MaxMod10
U32MaxMod10 == 5

DataBitsValues == {8, 7}
FlowControlValues == {"None", "Hardware"}
ParityValues == {"None", "Even"}
StopBitsValues == {1, 2}

\* SerialPortSettings::default() of the serialport crate
DefaultSettings ==
    [baud_rate |-> 9600, data_bits |-> 8, flow_control |-> "None",
     parity |-> "None", stop_bits |-> 1]

VARIABLES
    pc,              \* position of the worker thread in its loop, or "dead"
    to_port_chan,    \* commands sent by the client and not yet received
    port,            \* Option<Box<dyn SerialPort>>: <<[name, settings]>>
    read_file,       \* Option<Box<File>> being sent: <<[path, pos, size]>>
    bytes_read,
    bytes_total,
    last_percentage,
    write_file,      \* Option<Box<File>> being logged to: <<path>>
    settings,        \* SerialPortSettings kept by the thread
    send_elapsed,    \* last_send_time.elapsed() at the next tick, in ms
    scan_elapsed,    \* last_port_scan_time.elapsed() at the next tick, in ms
    events,          \* what the thread did to the outside in the current tick
    panicked,        \* "none", or the reason the thread panicked
    avail,           \* names serialport::available_ports() would list now
    ncmds,           \* commands issued by the client so far
    last_set,        \* history: the last value set for each settings field
    xfer,            \* history: the latest started transfer and its terminal responses
    snapshot,        \* history: the list reported by the latest scan
    handles,         \* number of device handles the thread holds open
    received,        \* history: the command try_recv returned in this tick
    tickets,         \* history: the issue number of each command in to_port_chan
    nhandled,        \* history: commands the thread has received so far
    last_call,       \* history: the client's latest call and what it returned
    logged,          \* history: the log sink's data responses against its appends
    orphans,         \* history: whether the transfer and the log sink have seen port = None
    from_port_chan,  \* responses sent and not yet received by the GTK client
    gui              \* the GTK client of gattii.rs, <<>> when another client holds the thread

vars == <<pc, to_port_chan, port, read_file, bytes_read, bytes_total,
          last_percentage, write_file, settings, send_elapsed, scan_elapsed,
          events, panicked, avail, ncmds, last_set, xfer, snapshot, handles,
          received, tickets, nhandled, last_call, logged, orphans, from_port_chan,
          gui>>

\* ----------------------------------------------------------------- helpers
IsSome(o) == o # <<>>

Min(a, b) == IF a < b THEN a ELSE b

\* The outcomes a call can have; a call that is not made has no outcome to draw
Outcomes(made) == IF made THEN BOOLEAN ELSE {TRUE}

\* The thread's locals as one record, so that each arm is a function on it.
Engine ==
    [port |-> port, read_file |-> read_file, bytes_read |-> bytes_read,
     bytes_total |-> bytes_total, last_percentage |-> last_percentage,
     write_file |-> write_file, settings |-> settings,
     send_elapsed |-> send_elapsed, scan_elapsed |-> scan_elapsed,
     events |-> events, panicked |-> panicked, handles |-> handles]

\* from_port_chan_tx.send(r).unwrap()
Send(e, r) == [e EXCEPT !.events = Append(@, <<"send", r>>)]

\* callback()
Callback(e) == [e EXCEPT !.events = Append(@, <<"callback">>)]

\* serialport::open_with_settings(&name, &settings)
OpenCall(e, name, s) == [e EXCEPT !.events = Append(@, <<"open", name, s>>)]

\* A panic unwinds the thread: its locals are dropped, the port and the files
\* are closed and both channel ends it holds are gone.
Panic(e, why) ==
    [e EXCEPT !.panicked = why, !.port = <<>>, !.read_file = <<>>,
              !.write_file = <<>>, !.bytes_read = 0, !.bytes_total = 0,
              !.last_percentage = 0, !.settings = DefaultSettings,
              !.send_elapsed = 0, !.scan_elapsed = 0, !.handles = 0]

\* port = p without the drop of the value it replaces: the previous handle
\* stays open next to the new one
SetPort_KeepsOld(e, p) ==
    [e EXCEPT !.port = p, !.handles = @ + (IF IsSome(p) THEN 1 ELSE 0)]

\* port = p: the handle moved in (if any) is now held, and the Box the
\* assignment replaces is dropped, which closes its handle
SetPort(e, p) ==
    [e EXCEPT !.port = p,
              !.handles = (@ - (IF IsSome(e.port) THEN 1 ELSE 0))
                          + (IF IsSome(p) THEN 1 ELSE 0)]

\* p.write(..) on the open port; what tells whose bytes they are
WriteCall(e, what, n) == [e EXCEPT !.events = Append(@, <<"write", what, n>>)]

\* The log write that hands the whole buffer to file.write
LogWrite_WholeBuffer(e, n, all) ==
    [e EXCEPT !.events = Append(@, <<"append", e.write_file[1], BufLen, all>>)]

\* file.write(&serial_buf[..rx_data_len]) on the log file: n bytes are handed
\* over, and all tells whether all of them were written (Ok(n)) or not (Err,
\* or Ok(l) with l < n)
LogWrite(e, n, all) ==
    [e EXCEPT !.events = Append(@, <<"append", e.write_file[1], n, all>>)]

\* File::create(f) and whether it returned Ok
CreateCall(e, f, ok) == [e EXCEPT !.events = Append(@, <<"create", f, ok>>)]

\* file.read(&mut serial_buf_rx[..n]) on the file being sent: res is "Ok" or
\* "Err" and len the number of bytes an Ok carries
ReadCall(e, n, res, len) == [e EXCEPT !.events = Append(@, <<"read", n, res, len>>)]

\* ------------------------------------------------------------ command arms
\* Each arm takes the thread's locals and the outcome of the calls it makes
\* into the serialport crate and the file system, and returns the new locals.

\* ConnectToPort without settings.baud_rate = baud: the command's baud is
\* logged and dropped, as in the first revision of the thread.
ConnectToPort_IgnoresBaud(e, name, baud, res) ==
    LET e2 == OpenCall(e, name, e.settings)
        e3 == CASE res = "Ok" ->
                     Send(SetPort(e2, <<[name |-> name, settings |-> e.settings]>>),
                          <<"OpenPortSuccess", name>>)
                [] res = "NoDevice" ->
                     Send(e2, <<"OpenPortError", "already in use or doesn't exist">>)
                [] OTHER ->
                     Send(e2, <<"OpenPortError", "description">>)
    IN Callback(e3)

\* ConnectToPort with settings.baud_rate = baud made only once the open has
\* succeeded: a failed connect leaves the baud of the settings as it was
ConnectToPort_BaudOnSuccess(e, name, baud, res) ==
    LET s1 == [e.settings EXCEPT !.baud_rate = baud]
        e2 == OpenCall(e, name, s1)
        e3 == CASE res = "Ok" ->
                     Send(SetPort([e2 EXCEPT !.settings = s1],
                                  <<[name |-> name, settings |-> s1]>>),
                          <<"OpenPortSuccess", name>>)
                [] res = "NoDevice" ->
                     Send(e2, <<"OpenPortError", "already in use or doesn't exist">>)
                [] OTHER ->
                     Send(e2, <<"OpenPortError", "description">>)
    IN Callback(e3)

\* ConnectToPort that gives up the open device when the open fails, as
\* ChangePort does
ConnectToPort_DropsOnFailure(e, name, baud, res) ==
    LET e1 == [e EXCEPT !.settings.baud_rate = baud]
        e2 == OpenCall(e1, name, e1.settings)
        e3 == CASE res = "Ok" ->
                     Send(SetPort(e2, <<[name |-> name, settings |-> e1.settings]>>),
                          <<"OpenPortSuccess", name>>)
                [] res = "NoDevice" ->
                     Send(SetPort(e2, <<>>),
                          <<"OpenPortError", "already in use or doesn't exist">>)
                [] OTHER ->
                     Send(SetPort(e2, <<>>), <<"OpenPortError", "description">>)
    IN Callback(e3)

\* Ok(SerialCommand::ConnectToPort { name, baud }); res is the outcome of
\* open_with_settings: "Ok", "NoDevice" or "Other".
ConnectToPort(e, name, baud, res) ==
    LET e1 == [e EXCEPT !.settings.baud_rate = baud]
        e2 == OpenCall(e1, name, e1.settings)
        e3 == CASE res = "Ok" ->
                     Send(SetPort(e2, <<[name |-> name, settings |-> e1.settings]>>),
                          <<"OpenPortSuccess", name>>)
                [] res = "NoDevice" ->
                     Send(e2, <<"OpenPortError", "already in use or doesn't exist">>)
                [] OTHER ->
                     Send(e2, <<"OpenPortError", "description">>)
    IN Callback(e3)

\* p.set_<field>(v).unwrap() on the open port, if there is one
LiveApply(e, field, v, ok) ==
    IF IsSome(e.port)
    THEN IF ok
         THEN [e EXCEPT !.port = <<[@[1] EXCEPT !.settings[field] = v]>>]
         ELSE Panic(e, "set_" \o field)
    ELSE e

\* Ok(SerialCommand::ChangeBaud(baud))
ChangeBaud(e, baud, ok) ==
    LiveApply([e EXCEPT !.settings.baud_rate = baud], "baud_rate", baud, ok)

\* Ok(SerialCommand::ChangeDataBits(data_bits))
ChangeDataBits(e, data_bits, ok) ==
    LiveApply([e EXCEPT !.settings.data_bits = data_bits], "data_bits", data_bits, ok)

\* Ok(SerialCommand::ChangeFlowControl(flow_control))
ChangeFlowControl(e, flow_control, ok) ==
    LiveApply([e EXCEPT !.settings.flow_control = flow_control],
              "flow_control", flow_control, ok)

\* Ok(SerialCommand::ChangeStopBits(stop_bits))
ChangeStopBits(e, stop_bits, ok) ==
    LiveApply([e EXCEPT !.settings.stop_bits = stop_bits], "stop_bits", stop_bits, ok)

\* Ok(SerialCommand::ChangeParity(parity))
ChangeParity(e, parity, ok) ==
    LiveApply([e EXCEPT !.settings.parity = parity], "parity", parity, ok)

\* ChangePort without the port.is_some() test: the open is tried whether or
\* not a device is open
ChangePort_Unguarded(e, name, opened) ==
    LET e1 == OpenCall(e, name, e.settings)
    IN IF opened
       THEN Send(SetPort(e1, <<[name |-> name, settings |-> e.settings]>>),
                 <<"OpenPortSuccess", name>>)
       ELSE Callback(Send(SetPort(e1, <<>>),
                          <<"OpenPortError", "Failed to open port">>))

\* Ok(SerialCommand::ChangePort(name)); opened is the outcome of open_with_settings
ChangePort(e, name, opened) ==
    IF IsSome(e.port)
    THEN LET e1 == OpenCall(e, name, e.settings)
         IN IF opened
            THEN Send(SetPort(e1, <<[name |-> name, settings |-> e.settings]>>),
                      <<"OpenPortSuccess", name>>)
            ELSE Callback(Send(SetPort(e1, <<>>),
                               <<"OpenPortError", "Failed to open port">>))
    ELSE e

\* Disconnect that also zeroes the progress counters, as SendFile does
Disconnect_ResetsProgress(e) ==
    Callback(Send([SetPort(e, <<>>) EXCEPT !.read_file = <<>>, !.write_file = <<>>,
                                          !.bytes_read = 0, !.last_percentage = 0],
                  <<"DisconnectSuccess">>))

\* Disconnect without write_file = None: the log outlives the port
Disconnect_KeepsLog(e) ==
    Callback(Send([SetPort(e, <<>>) EXCEPT !.read_file = <<>>], <<"DisconnectSuccess">>))

\* Ok(SerialCommand::Disconnect)
Disconnect(e) ==
    Callback(Send([SetPort(e, <<>>) EXCEPT !.read_file = <<>>, !.write_file = <<>>],
                  <<"DisconnectSuccess">>))

\* Ok(SerialCommand::SendData(d)): the write's outcome is only logged
SendData(e) == IF IsSome(e.port) THEN WriteCall(e, "data", 1) ELSE e

\* File::open(f) on the source of a transfer and whether it gave a file
OpenFileCall(e, f, ok) == [e EXCEPT !.events = Append(@, <<"fopen", f, ok>>)]

\* Ok(SerialCommand::SendFile(f)); meta_ok and size are the outcome of
\* fs::metadata(&f), open_ok that of File::open(f), and content is the number
\* of bytes the opened file will give to the reads
SendFile(e, f, meta_ok, size, open_ok, content) ==
    IF IsSome(e.port)
    THEN IF ~meta_ok
         THEN Panic(e, "fs::metadata")
         ELSE LET e0 == [e EXCEPT !.bytes_total = size, !.last_percentage = 0,
                                  !.bytes_read = 0]
                  e1 == OpenFileCall(e0, f, open_ok)
                  e2 == IF open_ok
                        THEN [e1 EXCEPT !.read_file =
                                  <<[path |-> f, pos |-> 0, size |-> content]>>]
                        ELSE e1
              IN Callback(Send(e2, <<"SendingFileStarted">>))
    ELSE Callback(Send(e, <<"SendingFileError", "No open port to send file">>))

\* CancelSendFile without read_file = None: the response is sent and the
\* pacer goes on
CancelSendFile_KeepsFile(e) == Callback(Send(e, <<"SendingFileCanceled">>))

\* Ok(SerialCommand::CancelSendFile)
CancelSendFile(e) ==
    Callback(Send([e EXCEPT !.read_file = <<>>], <<"SendingFileCanceled">>))

\* Ok(SerialCommand::LogToFile(f)); create_ok is the outcome of File::create(f)
LogToFile(e, f, create_ok) ==
    IF IsSome(e.port)
    THEN LET e1 == CreateCall(e, f, create_ok)
         IN IF create_ok THEN [e1 EXCEPT !.write_file = <<f>>] ELSE e1
    ELSE Callback(Send(e, <<"LogToFileError", "No open port to log file from">>))

\* Ok(SerialCommand::CancelLogToFile)
CancelLogToFile(e) ==
    Callback(Send([e EXCEPT !.write_file = <<>>], <<"LoggingFileCanceled">>))

\* ------------------------------------------------------ port read and pacer
\* Duration::subsec_nanos(): the fractional part of the elapsed time only
\* (here in ms)
SubsecMillis(elapsed) == elapsed % 1000

\* byte_as_serial_bits: start bit and 8 data bits, parity bit, stop bits
ByteAsSerialBits(s) ==
    (1 + 8) + (IF s.parity # "None" THEN 1 ELSE 0)
            + (IF s.stop_bits = 1 THEN 1 ELSE IF s.stop_bits = 2 THEN 2 ELSE 0)

\* tx_data_len without the division by the number of quanta in a second: one
\* second of data in every step
TxDataLen_PerSecond(baud, bits) == baud \div bits

\* tx_data_len = baud as usize / byte_as_serial_bits / (1000 / loop_time)
TxDataLen(baud, bits) == (baud \div bits) \div (1000 \div loop_time)

\* (bytes_read as f32 / bytes_total as f32 * 100.0) as u8: the cast truncates
\* and saturates, and a division by zero gives infinity
Percentage(read, total) ==
    IF total = 0
    THEN (IF read = 0 THEN 0 ELSE U8Max)
    ELSE Min((read * 100) \div total, U8Max)

\* What p.write(buf) may return for a buffer of x bytes: "Ok" for Ok(x),
\* "Short" for Ok(n) with n < x (the device took a part of the buffer), "Err"
\* for Err(_)
WriteResults == {"Ok", "Short", "Err"}

\* The number of bytes a short write of x bytes takes: a half of them
ShortWrite(x) == x \div 2

\* The value in Ok(n) returned by p.write, which the thread does not look at
WriteReturned(e, n) == [e EXCEPT !.events = Append(@, <<"accepted", n>>)]

\* WriteBytes that gives the device up when the write fails: the port is
\* closed along with the transfer
WriteBytes_ClosesPort(e, x, write_res) ==
    LET e0 == WriteCall(e, "file", x)
        e1 == IF write_res # "Err"
              THEN WriteReturned(e0, IF write_res = "Ok" THEN x ELSE ShortWrite(x))
              ELSE Callback(Send([SetPort(e0, <<>>) EXCEPT !.read_file = <<>>],
                                 <<"SendingFileError", "Failed to send bytes">>))
    IN [e1 EXCEPT !.send_elapsed = 0]

\* match read_len, arm ReadBytes::Bytes(x): p.write and last_send_time
WriteBytes(e, x, write_res) ==
    LET e0 == WriteCall(e, "file", x)
        e1 == IF write_res # "Err"
              THEN WriteReturned(e0, IF write_res = "Ok" THEN x ELSE ShortWrite(x))
              ELSE Callback(Send([e0 EXCEPT !.read_file = <<>>],
                                 <<"SendingFileError", "Failed to send bytes">>))
    IN [e1 EXCEPT !.send_elapsed = 0]

\* EndOfTransfer that reports the end as a failure
EndOfTransfer_ReportsError(e) ==
    Callback(Send([e EXCEPT !.read_file = <<>>],
                  <<"SendingFileError", "Failed to read bytes">>))

\* match read_len, arm ReadBytes::EndOfFile | ReadBytes::FileError
EndOfTransfer(e) ==
    Callback(Send([e EXCEPT !.read_file = <<>>], <<"SendingFileComplete">>))

\* file.read(&mut serial_buf_rx[..tx_data_len]), arm Ok(len) with len > 0:
\* counters, progress report, then the write.  last_percentage + 5 is a u8
\* addition: on overflow it panics when overflow checks are compiled in and
\* wraps when they are not.
ReadOk(e, len, write_res, overflow_checks) ==
    LET f == e.read_file[1]
        e1 == [e EXCEPT !.bytes_read = @ + len,
                        !.read_file = <<[f EXCEPT !.pos = @ + len]>>]
        percentage == Percentage(e1.bytes_read, e1.bytes_total)
        sum == e1.last_percentage + ProgressStep
    IN IF sum > U8Max /\ overflow_checks
       THEN Panic(e1, "attempt to add with overflow")
       ELSE LET e2 == IF percentage >= sum % (U8Max + 1)
                      THEN [Callback(Send(e1, <<"SendingFileProgress", percentage>>))
                               EXCEPT !.last_percentage = percentage]
                      ELSE e1
            IN WriteBytes(e2, len, write_res)

\* One pacer step on the open file: the read of tx_data_len bytes and the
\* match on its outcome.
PacerStep(e, tx_data_len, read_ok, write_res, overflow_checks) ==
    LET f == e.read_file[1]
        len == Min(tx_data_len, f.size - f.pos)
    IN IF tx_data_len > BufLen
       THEN Panic(e, "slice index out of range")
       ELSE IF ~read_ok THEN EndOfTransfer(ReadCall(e, tx_data_len, "Err", 0))
       ELSE IF len = 0 THEN EndOfTransfer(ReadCall(e, tx_data_len, "Ok", 0))
       ELSE ReadOk(ReadCall(e, tx_data_len, "Ok", len), len, write_res, overflow_checks)

\* if let Some(ref mut p) = port { ... }: the read from the port, the log
\* write and the pacer.  rx_data_len is what p.read returned (0 on error),
\* log_all whether file.write on the log wrote all of it, getters_ok whether
\* p.parity(), p.stop_bits() and p.baud_rate() answered.
PortIO(e, rx_data_len, log_all, getters_ok, read_ok, write_res, overflow_checks) ==
    IF ~IsSome(e.port)
    THEN e
    ELSE LET p == e.port[1]
             e0 == IF rx_data_len > 0
                   THEN Callback(Send(e, <<"Data", rx_data_len>>))
                   ELSE e
             e1 == IF rx_data_len > 0 /\ IsSome(e.write_file)
                   THEN LogWrite(e0, rx_data_len, log_all)
                   ELSE e0
         IN IF ~getters_ok
            THEN Panic(e1, "settings query")
            ELSE IF SubsecMillis(e1.send_elapsed) > loop_time /\ IsSome(e1.read_file)
                 THEN PacerStep(e1,
                                TxDataLen(p.settings.baud_rate, ByteAsSerialBits(p.settings)),
                                read_ok, write_res, overflow_checks)
                 ELSE e1

\* ---------------------------------------------------------------- port scan
\* The scan without ports.sort()
Sort_Missing(l) == l

\* Vec::sort on the names, as an insertion sort
RECURSIVE Insert(_, _)
Insert(x, l) ==
    IF l = <<>> THEN <<x>>
    ELSE IF x <= Head(l) THEN <<x>> \o l
    ELSE <<Head(l)>> \o Insert(x, Tail(l))

RECURSIVE Sort(_)
Sort(l) == IF l = <<>> THEN <<>> ELSE Insert(Head(l), Sort(Tail(l)))

\* ports.binary_search(&name).is_ok() on the slice l[lo..hi)
RECURSIVE BinarySearch(_, _, _, _)
BinarySearch(l, name, lo, hi) ==
    IF lo >= hi THEN FALSE
    ELSE LET mid == lo + (hi - lo) \div 2
         IN IF l[mid] = name THEN TRUE
            ELSE IF l[mid] < name THEN BinarySearch(l, name, mid + 1, hi)
            ELSE BinarySearch(l, name, lo, mid)

\* The scan without the check of the open port's name
ScanMessage_NoCheck(e, ports) == <<"PortsFound", ports>>

\* let message = { ... }: which response the scan sends
ScanMessage(e, ports) ==
    IF IsSome(e.port)
    THEN IF ~BinarySearch(ports, e.port[1].name, 1, Len(ports) + 1)
         THEN <<"UnexpectedDisconnection", ports>>
         ELSE <<"PortsFound", ports>>
    ELSE <<"PortsFound", ports>>

\* The scan without port = None on an unexpected disconnection
PortScan_KeepsPort(e, listing, list_ok) ==
    IF e.scan_elapsed > port_scan_time
    THEN IF ~list_ok
         THEN Panic(e, "Scanning for ports should never fail")
         ELSE Callback(Send([e EXCEPT !.scan_elapsed = 0],
                            ScanMessage(e, Sort(listing))))
    ELSE e

\* if last_port_scan_time.elapsed() > port_scan_time { ... }; listing is what
\* list_ports() returned, list_ok whether it returned Ok
PortScan(e, listing, list_ok) ==
    IF e.scan_elapsed > port_scan_time
    THEN IF ~list_ok
         THEN Panic(e, "Scanning for ports should never fail")
         ELSE LET ports == Sort(listing)
                  message == ScanMessage(e, ports)
                  e1 == [e EXCEPT !.scan_elapsed = 0]
                  e2 == IF message[1] = "UnexpectedDisconnection"
                        THEN SetPort(e1, <<>>)
                        ELSE e1
              IN Callback(Send(e2, message))
    ELSE e

\* Both clocks are read once per tick; only the sub-second part of the first
\* and the comparison of the second with port_scan_time are observed, so a
\* send_elapsed of two seconds or more is kept as one second plus its
\* sub-second part.
Elapse(t, d) == IF t + d >= 2000 THEN 1000 + ((t + d) % 1000) ELSE t + d

\* thread::sleep(Duration::from_millis(loop_time)): the tick took d ms
Sleep(e, d) ==
    [e EXCEPT !.send_elapsed = Elapse(@, d), !.scan_elapsed = @ + d]

\* ------------------------------------------------------------------ client
\* The commands the send_*_cmd methods of SerialThread put on to_port_chan
Commands ==
    {<<"ConnectToPort", n, b>> : n \in Ports, b \in Bauds}
    \cup {<<"ChangeBaud", b>> : b \in Bauds}
    \cup {<<"ChangeDataBits", v>> : v \in DataBitsValues}
    \cup {<<"ChangeFlowControl", v>> : v \in FlowControlValues}
    \cup {<<"ChangeStopBits", v>> : v \in StopBitsValues}
    \cup {<<"ChangeParity", v>> : v \in ParityValues}
    \cup {<<"ChangePort", n>> : n \in Ports}
    \cup {<<"SendFile", f>> : f \in Paths}
    \cup {<<"LogToFile", f>> : f \in Paths}
    \cup {<<"Disconnect">>, <<"SendData">>, <<"CancelSendFile">>, <<"CancelLogToFile">>}

\* ----------------------------------------------------------------- history
TerminalResponses ==
    {<<"SendingFileComplete">>, <<"SendingFileCanceled">>,
     <<"SendingFileError", "Failed to send bytes">>}

\* The latest transfer announced by sending-file-started, the number of
\* terminal responses sent since, and the device writes the pacer has made
\* for it and the bytes they carried.
TrackEvent(x, ev) ==
    IF ev[1] = "write" /\ ev[2] = "file"
    THEN [x EXCEPT !.writes = @ + 1, !.written = @ + ev[3]]
    ELSE IF ev[1] # "send" THEN x
    ELSE IF ev[2] = <<"SendingFileStarted">>
         THEN [started |-> TRUE, terminals |-> 0, writes |-> 0, written |-> 0]
    ELSE IF x.started /\ ev[2] \in TerminalResponses
         THEN [x EXCEPT !.terminals = @ + 1]
    ELSE x

RECURSIVE Track(_, _)
Track(x, evs) ==
    IF evs = <<>> THEN x ELSE Track(TrackEvent(x, Head(evs)), Tail(evs))

\* The log sink of the moment: the number of bytes of the data responses sent
\* while it was active less the number of bytes handed to file.write for its
\* destination, counted from File::create (which empties the destination).
\* What a failed or short write loses is not counted.  Without a sink there
\* is nothing to count.
TrackLogEvent(x, active, ev) ==
    IF ev[1] = "create" /\ ev[3] THEN 0
    ELSE IF ev[1] = "send" /\ ev[2][1] = "Data" /\ active THEN x + ev[2][2]
    ELSE IF ev[1] = "append" THEN x - ev[3]
    ELSE x

RECURSIVE TrackLog(_, _, _)
TrackLog(x, active, evs) ==
    IF evs = <<>> THEN x
    ELSE TrackLog(TrackLogEvent(x, active \/ (Head(evs)[1] = "create" /\ Head(evs)[3]),
                                Head(evs)),
                  active \/ (Head(evs)[1] = "create" /\ Head(evs)[3]), Tail(evs))

\* The responses among a sequence of events, in order
RECURSIVE Responses(_)
Responses(evs) ==
    IF evs = <<>> THEN <<>>
    ELSE IF Head(evs)[1] = "send" THEN <<Head(evs)[2]>> \o Responses(Tail(evs))
    ELSE Responses(Tail(evs))

\* The events a step added to the tick's log
Added(evs) == SubSeq(evs, Len(events) + 1, Len(evs))

\* ------------------------------------------------------------------ actions
\* try_recv on a stack: the newest message is returned first
RecvIndex_Newest(q) == Len(q)

\* to_port_chan_rx.try_recv(): the position in the channel of the message it
\* returns.  The channel is a queue: it is the oldest message.
RecvIndex(q) == 1

\* The message try_recv returns from a non-empty channel, and what it leaves
Taken(q) == q[RecvIndex(q)]

Rest(q) == SubSeq(q, 1, RecvIndex(q) - 1) \o SubSeq(q, RecvIndex(q) + 1, Len(q))

\* Whether a transfer (a log sink) that is active after a step has been
\* active at a moment when port was None.  A transfer starts with the File::open
\* of SendFile and a sink with the File::create of LogToFile, both made with a
\* device open; port is None after a step exactly if the step left it so.
Orphaned(was, file, e_port, new, call) ==
    /\ IsSome(file)
    /\ ~\E i \in DOMAIN new : new[i][1] = call /\ new[i][3]
    /\ (was \/ ~IsSome(e_port))

\* callback() calls glib::idle_add(receive): each call schedules one run of
\* receive on the GTK main loop
Callbacks(evs) == Len(SelectSeq(evs, LAMBDA ev : ev[1] = "callback"))

\* The GTK client is there to run: a panic in one of its handlers ends the
\* process, and the thread with it.
GuiRunning == IF gui = <<>> THEN TRUE ELSE gui[1].alive

\* The thread's locals after a step that ends at position next; a panic ends
\* the thread and drops the receiving end of to_port_chan.
Commit(e, next, queue, new) ==
    /\ GuiRunning
    /\ Len(from_port_chan) <= MaxBacklog
    /\ orphans' = [transfer |-> Orphaned(orphans.transfer, e.read_file, e.port, new, "fopen"),
                   log |-> Orphaned(orphans.log, e.write_file, e.port, new, "create")]
    /\ from_port_chan' = IF gui = <<>> THEN <<>> ELSE from_port_chan \o Responses(new)
    /\ gui' = IF gui = <<>> THEN <<>>
              ELSE <<[gui[1] EXCEPT !.idle = @ + Callbacks(new)]>>
    /\ port' = e.port
    /\ read_file' = e.read_file
    /\ bytes_read' = e.bytes_read
    /\ bytes_total' = e.bytes_total
    /\ last_percentage' = e.last_percentage
    /\ write_file' = e.write_file
    /\ settings' = e.settings
    /\ send_elapsed' = e.send_elapsed
    /\ scan_elapsed' = e.scan_elapsed
    /\ events' = e.events
    /\ panicked' = e.panicked
    /\ pc' = IF e.panicked # "none" THEN "dead" ELSE next
    /\ to_port_chan' = IF e.panicked # "none" THEN <<>> ELSE queue
    /\ xfer' = IF e.panicked # "none"
               THEN [Track(xfer, new) EXCEPT !.writes = 0, !.written = 0]
               ELSE Track(xfer, new)
    /\ logged' = IF IsSome(e.write_file)
                 THEN TrackLog(logged, IsSome(write_file), new)
                 ELSE 0
    /\ handles' = e.handles
    /\ received' = IF next = "io" /\ to_port_chan # <<>>
                   THEN <<[cmd |-> Taken(to_port_chan), had_port |-> IsSome(port),
                           had_read_file |-> IsSome(read_file),
                           had_write_file |-> IsSome(write_file)]>>
                   ELSE <<>>
    /\ tickets' = IF e.panicked # "none" THEN <<>>
                  ELSE IF next = "io" /\ to_port_chan # <<>> THEN Rest(tickets)
                  ELSE tickets
    /\ nhandled' = IF next = "io" /\ to_port_chan # <<>> THEN nhandled + 1
                   ELSE nhandled

\* The locals at the start of a tick: the log of the previous tick is dropped
TickStart == [Engine EXCEPT !.events = <<>>]

Receiving(tag) ==
    /\ pc = "cmd"
    /\ to_port_chan # <<>>
    /\ Taken(to_port_chan)[1] = tag

\* A send_*_cmd call of the client: tx.send fails once the thread is gone.
\* The thread looks at the channel only in try_recv, so a command sent while
\* the thread is in the rest of its loop is the same as one sent just before
\* the next try_recv: the send is taken at that point only.
ClientSendUpTo(cmds, max) ==
    /\ pc = "cmd"
    /\ panicked = "none"
    /\ ncmds < max
    /\ Len(to_port_chan) < MaxQueue
    /\ \E c \in cmds : to_port_chan' = Append(to_port_chan, c)
    /\ ncmds' = ncmds + 1
    /\ tickets' = Append(tickets, ncmds + 1)
    /\ UNCHANGED <<pc, port, read_file, bytes_read, bytes_total, last_percentage,
                   write_file, settings, send_elapsed, scan_elapsed, events,
                   panicked, avail, last_set, xfer, snapshot, handles, received,
                   nhandled, last_call, logged, orphans, from_port_chan, gui>>

ClientSend(cmds) == ClientSendUpTo(cmds, MaxCommands)

\* Err(TryRecvError::Empty)
CmdEmpty ==
    /\ pc = "cmd"
    /\ to_port_chan = <<>>
    /\ Commit(TickStart, "io", <<>>, <<>>)
    /\ UNCHANGED <<avail, ncmds, last_call, last_set, snapshot>>

CmdConnectToPort ==
    /\ Receiving("ConnectToPort")
    /\ LET name == Taken(to_port_chan)[2]
           baud == Taken(to_port_chan)[3]
       IN /\ \E res \in (IF name \in avail THEN {"Ok", "NoDevice", "Other"}
                                           ELSE {"NoDevice"}) :
                LET e == ConnectToPort(TickStart, name, baud, res)
                IN Commit(e, "io", Rest(to_port_chan), e.events)
          /\ last_set' = [last_set EXCEPT !.baud_rate = baud]
    /\ UNCHANGED <<avail, ncmds, last_call, snapshot>>

CmdChangeBaud ==
    /\ Receiving("ChangeBaud")
    /\ \E ok \in BOOLEAN :
         LET e == ChangeBaud(TickStart, Taken(to_port_chan)[2], ok)
         IN Commit(e, "io", Rest(to_port_chan), e.events)
    /\ last_set' = [last_set EXCEPT !.baud_rate = Taken(to_port_chan)[2]]
    /\ UNCHANGED <<avail, ncmds, last_call, snapshot>>

CmdChangeDataBits ==
    /\ Receiving("ChangeDataBits")
    /\ \E ok \in BOOLEAN :
         LET e == ChangeDataBits(TickStart, Taken(to_port_chan)[2], ok)
         IN Commit(e, "io", Rest(to_port_chan), e.events)
    /\ last_set' = [last_set EXCEPT !.data_bits = Taken(to_port_chan)[2]]
    /\ UNCHANGED <<avail, ncmds, last_call, snapshot>>

CmdChangeFlowControl ==
    /\ Receiving("ChangeFlowControl")
    /\ \E ok \in BOOLEAN :
         LET e == ChangeFlowControl(TickStart, Taken(to_port_chan)[2], ok)
         IN Commit(e, "io", Rest(to_port_chan), e.events)
    /\ last_set' = [last_set EXCEPT !.flow_control = Taken(to_port_chan)[2]]
    /\ UNCHANGED <<avail, ncmds, last_call, snapshot>>

CmdChangeStopBits ==
    /\ Receiving("ChangeStopBits")
    /\ \E ok \in BOOLEAN :
         LET e == ChangeStopBits(TickStart, Taken(to_port_chan)[2], ok)
         IN Commit(e, "io", Rest(to_port_chan), e.events)
    /\ last_set' = [last_set EXCEPT !.stop_bits = Taken(to_port_chan)[2]]
    /\ UNCHANGED <<avail, ncmds, last_call, snapshot>>

CmdChangeParity ==
    /\ Receiving("ChangeParity")
    /\ \E ok \in BOOLEAN :
         LET e == ChangeParity(TickStart, Taken(to_port_chan)[2], ok)
         IN Commit(e, "io", Rest(to_port_chan), e.events)
    /\ last_set' = [last_set EXCEPT !.parity = Taken(to_port_chan)[2]]
    /\ UNCHANGED <<avail, ncmds, last_call, snapshot>>

CmdChangePort ==
    /\ Receiving("ChangePort")
    /\ LET name == Taken(to_port_chan)[2]
       IN \E opened \in (IF IsSome(port) /\ name \in avail THEN BOOLEAN ELSE {FALSE}) :
            LET e == ChangePort(TickStart, name, opened)
            IN Commit(e, "io", Rest(to_port_chan), e.events)
    /\ UNCHANGED <<avail, ncmds, last_call, last_set, snapshot>>

CmdDisconnect ==
    /\ Receiving("Disconnect")
    /\ LET e == Disconnect(TickStart)
       IN Commit(e, "io", Rest(to_port_chan), e.events)
    /\ UNCHANGED <<avail, ncmds, last_call, last_set, snapshot>>

CmdSendData ==
    /\ Receiving("SendData")
    /\ LET e == SendData(TickStart)
       IN Commit(e, "io", Rest(to_port_chan), e.events)
    /\ UNCHANGED <<avail, ncmds, last_call, last_set, snapshot>>

\* The send-file arm.  fs::metadata and File::open are two calls: when the
\* file is being changed by another process (changing), the size the first
\* reports and the content the second gives to the reads need not agree.
CmdSendFileOf(sizes, changing) ==
    /\ Receiving("SendFile")
    /\ \E meta_ok \in Outcomes(IsSome(port)) :
       \E size \in (IF IsSome(port) /\ meta_ok THEN sizes ELSE {0}),
          open_ok \in Outcomes(IsSome(port) /\ meta_ok) :
       \E content \in (IF changing /\ IsSome(port) /\ meta_ok /\ open_ok
                        THEN sizes ELSE {size}) :
         LET e == SendFile(TickStart, Taken(to_port_chan)[2], meta_ok, size, open_ok,
                           content)
         IN Commit(e, "io", Rest(to_port_chan), e.events)
    /\ UNCHANGED <<avail, ncmds, last_call, last_set, snapshot>>

\* send-file of a file nobody else touches during the transfer
CmdSendFile == CmdSendFileOf(FileSizes, FALSE)

\* send-file of a file that another process may be writing
CmdSendFileChanging == CmdSendFileOf(FileSizes, TRUE)

\* send-file of a large file nobody else touches
CmdSendFileLarge == CmdSendFileOf(LargeFileSizes, FALSE)

CmdCancelSendFile ==
    /\ Receiving("CancelSendFile")
    /\ LET e == CancelSendFile(TickStart)
       IN Commit(e, "io", Rest(to_port_chan), e.events)
    /\ UNCHANGED <<avail, ncmds, last_call, last_set, snapshot>>

CmdLogToFile ==
    /\ Receiving("LogToFile")
    /\ \E create_ok \in Outcomes(IsSome(port)) :
         LET e == LogToFile(TickStart, Taken(to_port_chan)[2], create_ok)
         IN Commit(e, "io", Rest(to_port_chan), e.events)
    /\ UNCHANGED <<avail, ncmds, last_call, last_set, snapshot>>

CmdCancelLogToFile ==
    /\ Receiving("CancelLogToFile")
    /\ LET e == CancelLogToFile(TickStart)
       IN Commit(e, "io", Rest(to_port_chan), e.events)
    /\ UNCHANGED <<avail, ncmds, last_call, last_set, snapshot>>

\* All orders in which list_ports() may name the members of S
RECURSIVE Listings(_)
Listings(S) ==
    IF S = {} THEN {<<>>}
    ELSE UNION {{<<x>> \o l : l \in Listings(S \ {x})} : x \in S}

\* The list the latest scan reported, and whether that scan sent ports-found
\* with the very list the scan before it had reported
Reported(new, old) ==
    LET r == Responses(new)
    IN IF r # <<>> /\ r[1][1] \in {"PortsFound", "UnexpectedDisconnection"}
       THEN [list |-> <<r[1][2]>>,
             repeats |-> r[1][1] = "PortsFound" /\ old.list = <<r[1][2]>>]
       ELSE old

\* Whether the tick's pacer step and port scan will run
PacerDue ==
    IsSome(port) /\ IsSome(read_file) /\ SubsecMillis(send_elapsed) > loop_time

ScanDue == scan_elapsed > port_scan_time

\* The rest of the tick after the command: the port block, the scan block
\* and the sleep; durations are the lengths the tick may have.  The outcome
\* of a call is drawn only when the tick gets as far as making the call.
IoStepOf(durations, results) ==
    /\ pc = "io"
    /\ \E rx_data_len \in (IF IsSome(port) THEN RxLens ELSE {0}),
          getters_ok \in Outcomes(IsSome(port)) :
       \E log_all \in Outcomes(IsSome(port) /\ IsSome(write_file) /\ rx_data_len > 0),
          read_ok \in Outcomes(PacerDue /\ getters_ok) :
       \E write_res \in (IF PacerDue /\ getters_ok /\ read_ok
                             /\ read_file[1].pos < read_file[1].size
                          THEN results ELSE {"Ok"}),
          overflow_checks \in Outcomes(PacerDue /\ getters_ok /\ read_ok
                                       /\ last_percentage + ProgressStep > U8Max),
          list_ok \in Outcomes(ScanDue /\ getters_ok) :
       \E listing \in (IF ScanDue /\ list_ok THEN Listings(avail) ELSE {<<>>}),
          d \in durations :
         LET e1 == PortIO(Engine, rx_data_len, log_all, getters_ok, read_ok, write_res,
                          overflow_checks)
             e2 == IF e1.panicked # "none" THEN e1 ELSE PortScan(e1, listing, list_ok)
             e3 == IF e2.panicked # "none" THEN e2 ELSE Sleep(e2, d)
         IN /\ Commit(e3, "cmd", to_port_chan, Added(e3.events))
            /\ snapshot' = Reported(SubSeq(e2.events, Len(e1.events) + 1, Len(e2.events)),
                                    snapshot)
    /\ UNCHANGED <<avail, ncmds, last_call, last_set>>

IoStep == IoStepOf(TickDurations, WriteResults)

\* The same with ticks after which the sub-second part of
\* last_send_time.elapsed() may be under loop_time
IoStepPacing == IoStepOf(PacingDurations, WriteResults)

\* A device appears in, or disappears from, the device directory
Plug ==
    /\ \E n \in Removable \ avail : avail' = avail \cup {n}
    /\ UNCHANGED <<pc, to_port_chan, port, read_file, bytes_read, bytes_total,
                   last_percentage, write_file, settings, send_elapsed,
                   scan_elapsed, events, panicked, ncmds, last_set, xfer, snapshot,
                   handles, received, tickets, nhandled, last_call, logged, orphans,
                   from_port_chan, gui>>

Unplug ==
    /\ \E n \in Removable \cap avail : avail' = avail \ {n}
    /\ UNCHANGED <<pc, to_port_chan, port, read_file, bytes_read, bytes_total,
                   last_percentage, write_file, settings, send_elapsed,
                   scan_elapsed, events, panicked, ncmds, last_set, xfer, snapshot,
                   handles, received, tickets, nhandled, last_call, logged, orphans,
                   from_port_chan, gui>>

\* State at the top of the first loop iteration, with every device plugged
\* in; client is the GTK client that has created the thread, if it has
InitWith(client) ==
    /\ pc = "cmd"
    /\ to_port_chan = <<>>
    /\ port = <<>>
    /\ read_file = <<>>
    /\ bytes_read = 0
    /\ bytes_total = 0
    /\ last_percentage = 0
    /\ write_file = <<>>
    /\ settings = DefaultSettings
    /\ send_elapsed = 0
    /\ scan_elapsed = 0
    /\ events = <<>>
    /\ panicked = "none"
    /\ avail = Ports
    /\ ncmds = 0
    /\ last_set = DefaultSettings
    /\ xfer = [started |-> FALSE, terminals |-> 0, writes |-> 0, written |-> 0]
    /\ snapshot = [list |-> <<>>, repeats |-> FALSE]
    /\ handles = 0
    /\ received = <<>>
    /\ tickets = <<>>
    /\ nhandled = 0
    /\ last_call = <<>>
    /\ logged = 0
    /\ orphans = [transfer |-> FALSE, log |-> FALSE]
    /\ from_port_chan = <<>>
    /\ gui = client

\* The thread created by a client of the library that is not modelled
Init == InitWith(<<>>)

\* The client of the session specification issues the commands that open and
\* close the port and start and stop transfers and logs.
SessionCommands ==
    {c \in Commands : c[1] \in {"ConnectToPort", "ChangePort", "Disconnect", "SendData",
                               "SendFile", "CancelSendFile", "LogToFile",
                               "CancelLogToFile"} /\ (c[1] = "ConnectToPort" => c[3] = 9600)}

\* The client of the settings specification configures the link and connects.
SettingsCommands ==
    {c \in Commands : c[1] \in {"ConnectToPort", "ChangeBaud", "ChangeDataBits",
                               "ChangeFlowControl", "ChangeStopBits", "ChangeParity"}}

ClientSendSession == ClientSend(SessionCommands)

ClientSendSettings == ClientSend(SettingsCommands)

Next ==
    \/ CmdEmpty
    \/ CmdConnectToPort
    \/ CmdChangePort
    \/ CmdDisconnect
    \/ CmdSendData
    \/ CmdSendFile
    \/ CmdCancelSendFile
    \/ CmdLogToFile
    \/ CmdCancelLogToFile
    \/ IoStep
    \/ ClientSendSession
    \/ Plug
    \/ Unplug

Spec == Init /\ [][Next]_vars

\* The worker thread is a running OS thread: while it has not panicked it
\* keeps taking steps, whatever the client and the devices do.
ThreadStep ==
    \/ CmdEmpty
    \/ CmdConnectToPort
    \/ CmdChangePort
    \/ CmdDisconnect
    \/ CmdSendData
    \/ CmdSendFile
    \/ CmdCancelSendFile
    \/ CmdLogToFile
    \/ CmdCancelLogToFile
    \/ IoStep

FairSpec == Spec /\ WF_vars(ThreadStep)

NextSettings ==
    \/ CmdEmpty
    \/ CmdConnectToPort
    \/ CmdChangeBaud
    \/ CmdChangeDataBits
    \/ CmdChangeFlowControl
    \/ CmdChangeStopBits
    \/ CmdChangeParity
    \/ IoStep
    \/ ClientSendSettings

SettingsSpec == Init /\ [][NextSettings]_vars

\* --------------------------------------------------------- client boundary
\* The send_*_cmd methods of SerialThread.  A string is a sequence of
\* one-character strings.
Digits == <<"0", "1", "2", "3", "4", "5", "6", "7", "8", "9">>

IsDigit(c) == \E d \in DOMAIN Digits : Digits[d] = c

DigitValue(c) == (CHOOSE d \in DOMAIN Digits : Digits[d] = c) - 1

\* The digits of a u32, most significant first; acc is the value so far.  The
\* overflow test is made before the multiplication, as checked_mul and
\* checked_add make it.
RECURSIVE ParseDigits(_, _)
ParseDigits(s, acc) ==
    IF s = <<>> THEN <<"Ok", acc>>
    ELSE IF ~IsDigit(Head(s)) THEN <<"Err", "InvalidDigit">>
    ELSE IF \/ acc > U32MaxDiv10
            \/ (acc = U32MaxDiv10 /\ DigitValue(Head(s)) > U32MaxMod10)
         THEN <<"Err", "PosOverflow">>
    ELSE ParseDigits(Tail(s), acc * 10 + DigitValue(Head(s)))

\* A parse that passes over the characters that are not digits
ParseU32_SkipsNonDigits(s) ==
    IF s = <<>> THEN <<"Err", "Empty">>
    ELSE ParseDigits(SelectSeq(s, IsDigit), 0)

\* baud_rate.parse::<u32>(): an optional "+" and then one digit or more, no
\* white space, no other sign, and a value of at most u32::MAX
ParseU32(s) ==
    IF s = <<>> THEN <<"Err", "Empty">>
    ELSE LET digits == IF Head(s) = "+" THEN Tail(s) ELSE s
         IN IF digits = <<>> THEN <<"Err", "InvalidDigit">>
            ELSE ParseDigits(digits, 0)

\* tx.send(c): fails once the thread, and with it the receiver, is gone
TxSend(q, c, alive) ==
    IF alive THEN [chan |-> Append(q, c), result |-> <<"Ok">>]
    ELSE [chan |-> q, result |-> <<"Err", "Send">>]

\* send_port_open_cmd(port_name, baud_rate)
SendPortOpenCmd(q, port_name, baud_rate, alive) ==
    LET r == ParseU32(baud_rate)
    IN IF r[1] = "Err"
       THEN [chan |-> q, result |-> <<"Err", "Parse">>]
       ELSE TxSend(q, <<"ConnectToPort", port_name, r[2]>>, alive)

\* send_port_close_cmd()
SendPortCloseCmd(q, alive) == TxSend(q, <<"Disconnect">>, alive)

\* send_port_change_baud_cmd(baud_rate)
SendPortChangeBaudCmd(q, baud_rate, alive) ==
    LET r == ParseU32(baud_rate)
    IN IF r[1] = "Err"
       THEN [chan |-> q, result |-> <<"Err", "Parse">>]
       ELSE TxSend(q, <<"ChangeBaud", r[2]>>, alive)

\* A call of the client and its effect on the channel.  As for ClientSend the
\* call is taken when the thread is about to look at the channel, or after
\* the thread has died.
ClientCall(fn, baud_rate, r) ==
    /\ pc \in {"cmd", "dead"}
    /\ ncmds < MaxCommands
    /\ Len(to_port_chan) < MaxPending
    /\ to_port_chan' = r.chan
    /\ last_call' = <<[fn |-> fn, baud_rate |-> baud_rate, result |-> r.result]>>
    /\ ncmds' = IF r.result = <<"Ok">> THEN ncmds + 1 ELSE ncmds
    /\ tickets' = IF r.result = <<"Ok">> THEN Append(tickets, ncmds + 1) ELSE tickets
    /\ UNCHANGED <<pc, port, read_file, bytes_read, bytes_total, last_percentage,
                   write_file, settings, send_elapsed, scan_elapsed, events,
                   panicked, avail, last_set, xfer, snapshot, handles, received,
                   nhandled, logged, orphans, from_port_chan, gui>>

ClientOpen ==
    \E n \in Ports, b \in BaudStrings :
      ClientCall("send_port_open_cmd", b,
                 SendPortOpenCmd(to_port_chan, n, b, panicked = "none"))

ClientClose ==
    ClientCall("send_port_close_cmd", <<>>,
               SendPortCloseCmd(to_port_chan, panicked = "none"))

ClientChangeBaud ==
    \E b \in BaudStrings :
      ClientCall("send_port_change_baud_cmd", b,
                 SendPortChangeBaudCmd(to_port_chan, b, panicked = "none"))

NextClient ==
    \/ CmdEmpty
    \/ CmdConnectToPort
    \/ CmdChangeBaud
    \/ CmdDisconnect
    \/ IoStep
    \/ ClientOpen
    \/ ClientClose
    \/ ClientChangeBaud

ClientSpec == Init /\ [][NextClient]_vars

\* ------------------------------------------------------------------- pacer
\* The client of the pacer specification configures the link, connects and
\* sends a file that may be changing on disk.
PacerCommands ==
    {c \in Commands : c[1] \in {"ConnectToPort", "ChangeBaud", "ChangeDataBits",
                               "ChangeStopBits", "ChangeParity", "SendFile"}}
    \cup {<<"ChangeBaud", b>> : b \in FastBauds}

ClientSendPacer == ClientSend(PacerCommands)

NextPacer ==
    \/ CmdEmpty
    \/ CmdConnectToPort
    \/ CmdChangeBaud
    \/ CmdChangeDataBits
    \/ CmdChangeStopBits
    \/ CmdChangeParity
    \/ CmdSendFileChanging
    \/ IoStep
    \/ ClientSendPacer

PacerSpec == Init /\ [][NextPacer]_vars

\* The worker thread's steps in the pacer specification, and the
\* specification with the thread kept running
PacerThreadStep ==
    \/ CmdEmpty
    \/ CmdConnectToPort
    \/ CmdChangeBaud
    \/ CmdChangeDataBits
    \/ CmdChangeStopBits
    \/ CmdChangeParity
    \/ CmdSendFileChanging
    \/ IoStep

FairPacerSpec == PacerSpec /\ WF_vars(PacerThreadStep)

\* ------------------------------------------------------------------ pacing
\* The client of the pacing specification connects at 9600 baud with the
\* default 8 data bits, no parity and 1 stop bit, and sends a large file; it
\* issues no command once a transfer has been announced, so that a run holds
\* one transfer.
PacingCommands ==
    {c \in Commands : \/ c[1] = "SendFile"
                      \/ (c[1] = "ConnectToPort" /\ c[2] = 1 /\ c[3] = 9600)}

ClientSendPacing == ~xfer.started /\ ClientSendUpTo(PacingCommands, MaxPacingCommands)

NextPacing ==
    \/ CmdEmpty
    \/ CmdConnectToPort
    \/ CmdSendFileLarge
    \/ IoStepPacing
    \/ ClientSendPacing

PacingSpec == Init /\ [][NextPacing]_vars

\* ------------------------------------------------------------- GTK client
\* The client of src/bin/gattii.rs creates the thread with the callback
\* || glib::idle_add(receive), so that each callback() of the thread schedules
\* one run of receive on the main loop, and keeps state.connected_port.

\* State { connected_port: None, .. } with no run of receive scheduled
GuiState == [idle |-> 0, connected_port |-> <<>>, alive |-> TRUE]

InitGui == InitWith(<<GuiState>>)

\* The arms of the match in receive() that touch state.connected_port; the
\* other arms change widgets only.  take().expect(..) panics on None.
Handle(g, r) ==
    CASE r[1] = "OpenPortSuccess" -> [g EXCEPT !.connected_port = <<r[2]>>]
      [] r[1] \in {"OpenPortError", "DisconnectSuccess"} ->
           [g EXCEPT !.connected_port = <<>>]
      [] r[1] = "UnexpectedDisconnection" ->
           IF IsSome(g.connected_port)
           THEN [g EXCEPT !.connected_port = <<>>]
           ELSE [g EXCEPT !.alive = FALSE]
      [] OTHER -> g

\* One run of receive(): a single try_recv, the handling of what it returned
\* if it returned a response, and Continue(false), which removes the source
Receive ==
    /\ gui # <<>>
    /\ gui[1].alive
    /\ gui[1].idle > 0
    /\ LET g == [gui[1] EXCEPT !.idle = @ - 1]
       IN IF from_port_chan = <<>>
          THEN gui' = <<g>> /\ from_port_chan' = from_port_chan
          ELSE gui' = <<Handle(g, Head(from_port_chan))>>
               /\ from_port_chan' = Tail(from_port_chan)
    /\ UNCHANGED <<pc, to_port_chan, port, read_file, bytes_read, bytes_total,
                   last_percentage, write_file, settings, send_elapsed,
                   scan_elapsed, events, panicked, avail, ncmds, last_set, xfer,
                   snapshot, handles, received, tickets, nhandled, last_call,
                   logged, orphans>>

\* The commands behind the open button and the ports dropdown
GuiCommands ==
    {c \in Commands : \/ c[1] \in {"ChangePort", "Disconnect"}
                      \/ (c[1] = "ConnectToPort" /\ c[3] = 9600)}

ClientSendGui == ClientSend(GuiCommands)

NextGui ==
    \/ CmdEmpty
    \/ CmdConnectToPort
    \/ CmdChangePort
    \/ CmdDisconnect
    \/ IoStep
    \/ Plug
    \/ Unplug
    \/ ClientSendGui
    \/ Receive

GuiSpec == InitGui /\ [][NextGui]_vars

\* ================================================================== claims
\* The responses a scan or a disconnect sends about the session
SessionResponses(evs) ==
    SelectSeq(Responses(evs),
              LAMBDA r : r[1] \in {"PortsFound", "UnexpectedDisconnection",
                                   "DisconnectSuccess"})

\* l lists exactly the members of S, in increasing order
IsSortedListOf(l, S) ==
    /\ Len(l) = Cardinality(S)
    /\ {l[i] : i \in DOMAIN l} = S
    /\ \A i, j \in DOMAIN l : i < j => l[i] < l[j]

\* The step is the rest-of-tick step of a thread that survives it
IoStepTaken == pc = "io" /\ pc' = "cmd"

\* The open device's name is missing from the device directory
OpenPortMissing == IsSome(port) /\ port[1].name \notin avail

\* C1: a transfer announced by sending-file-started gets at most one terminal
\* response (complete, canceled or error), whatever commands and ticks follow.
C1_AtMostOneTerminalResponse == xfer.terminals <= 1

\* C2: a transfer announced by sending-file-started is eventually followed by
\* a terminal response, whatever follows it (checked for a thread that keeps
\* running: a panic of the thread is not counted against the claim).
C2_StartedTransferGetsTerminalResponse ==
    (xfer.started /\ xfer.terminals = 0) ~> (xfer.terminals > 0 \/ panicked # "none")

\* C3: at the end of every tick an active transfer or an active log sink
\* implies an open device handle.
C3_TransferOrLogImpliesPort ==
    pc = "cmd" => ((IsSome(read_file) \/ IsSome(write_file)) => IsSome(port))

\* C4: every response the thread sends is followed by exactly one wake callback
\* before the next response or the end of the tick, so callbacks and responses
\* are equal in number.
C4_EveryResponseWakes ==
    /\ \A i \in DOMAIN events :
         events[i][1] = "send" => (i < Len(events) /\ events[i + 1][1] = "callback")
    /\ Len(SelectSeq(events, LAMBDA ev : ev[1] = "callback")) = Len(Responses(events))

\* C5: a scan that runs while the open device's name is missing from the
\* enumeration sends exactly one unexpected-disconnection carrying the new
\* sorted list, no ports-found and no disconnect-success, and leaves no device
\* handle.
C5_UnplugScanDisconnects ==
    [][(IoStepTaken /\ ScanDue /\ OpenPortMissing)
        => LET rs == SessionResponses(Added(events'))
           IN /\ Len(rs) = 1
              /\ rs[1][1] = "UnexpectedDisconnection"
              /\ IsSortedListOf(rs[1][2], avail)
              /\ port' = <<>>]_vars

C5_Witness ==
    /\ pc = "cmd"
    /\ port = <<>>
    /\ \E i \in DOMAIN events :
         events[i][1] = "send" /\ events[i][2][1] = "UnexpectedDisconnection"

C7_PortsFoundNamesOpenPort ==
    [][(IoStepTaken /\ IsSome(port))
        => LET rs == Responses(Added(events'))
           IN /\ \A i \in DOMAIN rs :
                   rs[i][1] = "PortsFound"
                   => \E j \in DOMAIN rs[i][2] : rs[i][2][j] = port[1].name
              /\ (ScanDue /\ OpenPortMissing)
                   => \E i \in DOMAIN rs : rs[i][1] = "UnexpectedDisconnection"]_vars

C7_Witness ==
    /\ pc = "cmd"
    /\ IsSome(port)
    /\ \E i \in DOMAIN events :
         /\ events[i][1] = "send"
         /\ events[i][2][1] = "PortsFound"
         /\ \E j \in DOMAIN events[i][2][2] : events[i][2][2][j] = port[1].name

\* C8: a change-baud, change-data-bits, change-stop-bits, change-parity or
\* change-flow-control whose live apply on the open device fails does not end
\* the thread.
C8_ReconfigurationFailureSurvived ==
    panicked \notin {"set_baud_rate", "set_data_bits", "set_flow_control",
                     "set_stop_bits", "set_parity"}

\* C9: the settings a connect passes to the device open hold, for each field
\* independently, the last value set for that field by the commands processed
\* before (the default if never set), with the baud of the connect command.
C9_ConnectUsesLastValuePerField ==
    \A i \in DOMAIN events : events[i][1] = "open" => events[i][3] = last_set

C9_Witness ==
    \E i \in DOMAIN events :
        /\ events[i][1] = "open"
        /\ events[i][3].parity = "Even"
        /\ events[i][3].data_bits = 7
        /\ events[i][3].stop_bits = 1

\* C10: processing a disconnect command in any session state leaves no device
\* handle, no active transfer and no active log sink, and sends exactly one
\* disconnect-success.
C10_DisconnectClearsSession ==
    [][(Receiving("Disconnect") /\ pc' = "io")
        => /\ port' = <<>>
           /\ read_file' = <<>>
           /\ write_file' = <<>>
           /\ Responses(events') = << <<"DisconnectSuccess">> >>]_vars

C10_Witness ==
    /\ pc = "io"
    /\ Responses(events) = << <<"DisconnectSuccess">> >>
    /\ port = <<>> /\ read_file = <<>> /\ write_file = <<>>
    /\ xfer.started /\ xfer.terminals = 0

\* The command of this tick and what was open when it was received
Processed(tag) == pc = "io" /\ received # <<>> /\ received[1].cmd[1] = tag

\* The step is the one in which the thread receives and handles a tag command
Processing(tag) == Receiving(tag) /\ pc' # "cmd"

\* C11: a disconnect processed while no device is open sends
\* disconnect-success and nothing else, and leaves the settings, the progress
\* counters and the time since the last scan as they were; there is still no
\* device, and no transfer or log sink appears.
C11_DisconnectWhileClosedChangesNothing ==
    [][(Processing("Disconnect") /\ port = <<>>)
        => /\ Responses(events') = << <<"DisconnectSuccess">> >>
           /\ settings' = settings
           /\ bytes_read' = bytes_read
           /\ bytes_total' = bytes_total
           /\ last_percentage' = last_percentage
           /\ scan_elapsed' = scan_elapsed
           /\ send_elapsed' = send_elapsed
           /\ port' = <<>>
           /\ handles' = handles
           /\ (read_file = <<>> => read_file' = <<>>)
           /\ (write_file = <<>> => write_file' = <<>>)]_vars

C11_Witness ==
    /\ Processed("Disconnect")
    /\ ~received[1].had_port
    /\ bytes_read > 0
    /\ scan_elapsed > 0
    /\ Responses(events) = << <<"DisconnectSuccess">> >>

\* The tick's scan finds the open device's name missing
ScanDetectsUnplug == pc = "io" /\ ScanDue /\ OpenPortMissing

\* The ways the session may change in one step
SessionChangeAllowed ==
    /\ (IsSome(port) /\ port' = <<>>)
         => \/ Receiving("Disconnect")
            \/ Receiving("ChangePort")
            \/ ScanDetectsUnplug
    /\ (port = <<>> /\ IsSome(port'))
         => Receiving("ConnectToPort")

\* C12: the device handle goes from present to absent only in a tick that
\* handles a disconnect, handles a change-port whose open fails, or scans and
\* finds the open device missing, and from absent to present only in a tick
\* that handles a connect whose open succeeds; no other command, read, pacer
\* step or failure changes whether a handle is present.
C12_SessionChangesOnlyByConnectDisconnectUnplug == [][SessionChangeAllowed]_vars

\* C12 for the steps the thread survives: the same, with the steps in which
\* the thread panics left out.
C12_SurvivedStepsChangeSessionOnlySo ==
    [][panicked' = "none" => SessionChangeAllowed]_vars

\* The one response of a send-file handled with no device open, and the
\* progress counters it leaves alone
SendFileRejected ==
    /\ Len(Responses(events')) = 1
    /\ Responses(events')[1][1] = "SendingFileError"
    /\ bytes_read' = bytes_read
    /\ bytes_total' = bytes_total
    /\ last_percentage' = last_percentage

\* C13: a send-file handled while no device is open sends exactly one
\* sending-file-error and no sending-file-started, and leaves no transfer
\* active and the progress counters unchanged.
C13_SendFileWithoutPortRejected ==
    [][(Processing("SendFile") /\ port = <<>>)
        => (SendFileRejected /\ read_file' = <<>>)]_vars

\* C13 with the transfer left as it was instead of absent
C13_SendFileWithoutPortKeepsTransfer ==
    [][(Processing("SendFile") /\ port = <<>>)
        => (SendFileRejected /\ read_file' = read_file)]_vars

\* C14: sending-file-started is sent only when the source file has been
\* opened: right after a send-file that sends it, a transfer is active on the
\* file the command names, with bytes_read = 0 and last_percentage = 0.
C14_StartedMeansFileOpened ==
    [][(Processing("SendFile")
        /\ \E i \in DOMAIN Responses(events') :
               Responses(events')[i] = <<"SendingFileStarted">>)
        => /\ read_file' # <<>>
           /\ read_file'[1].path = Head(to_port_chan)[2]
           /\ read_file'[1].pos = 0
           /\ bytes_read' = 0
           /\ last_percentage' = 0]_vars

\* The one response of a log-to-file handled with no device open, with no
\* call into the file system
LogToFileRejected ==
    /\ Len(Responses(events')) = 1
    /\ Responses(events')[1][1] = "LogToFileError"
    /\ \A i \in DOMAIN events' : events'[i][1] # "create"

\* C15: a log-to-file handled while no device is open sends exactly one
\* log-error, makes no file-system call (the destination is neither created
\* nor truncated) and leaves no log sink active.
C15_LogToFileWithoutPortRejected ==
    [][(Processing("LogToFile") /\ port = <<>>)
        => (LogToFileRejected /\ write_file' = <<>>)]_vars

\* C15 with the log sink left as it was instead of absent
C15_LogToFileWithoutPortKeepsSink ==
    [][(Processing("LogToFile") /\ port = <<>>)
        => (LogToFileRejected /\ write_file' = write_file)]_vars

\* C16: a change-port handled while no device is open has no effect: no open
\* is tried, no response is sent, and the session, the settings, the transfer
\* and the log sink are as they were.
C16_ChangePortWithoutPortIsNoOp ==
    [][(Processing("ChangePort") /\ port = <<>>)
        => /\ events' = <<>>
           /\ port' = <<>>
           /\ handles' = handles
           /\ settings' = settings
           /\ read_file' = read_file
           /\ write_file' = write_file
           /\ bytes_read' = bytes_read
           /\ bytes_total' = bytes_total
           /\ last_percentage' = last_percentage
           /\ panicked' = "none"]_vars

C16_Witness ==
    /\ Processed("ChangePort")
    /\ ~received[1].had_port
    /\ received[1].cmd[2] \in avail
    /\ events = <<>>
    /\ port = <<>>

\* C17: a change-port(name) handled while a device is open reopens with the
\* settings as they are and sends exactly one response: on success
\* open-success(name), with the handle on the named device; on failure
\* open-error, with the session cleared (no device handle, no active transfer,
\* no active log sink).
C17_ChangePortReopensOrClearsSession ==
    [][(Processing("ChangePort") /\ IsSome(port))
        => LET name == Head(to_port_chan)[2]
               rs == Responses(events')
           IN /\ settings' = settings
              /\ events'[1] = <<"open", name, settings>>
              /\ Len(rs) = 1
              /\ \/ /\ rs[1] = <<"OpenPortSuccess", name>>
                    /\ port' = <<[name |-> name, settings |-> settings]>>
                 \/ /\ rs[1][1] = "OpenPortError"
                    /\ port' = <<>>
                    /\ read_file' = <<>>
                    /\ write_file' = <<>>]_vars

\* C17 with the transfer and the log sink left as they were on failure
C17_ChangePortReopensOrDropsPort ==
    [][(Processing("ChangePort") /\ IsSome(port))
        => LET name == Head(to_port_chan)[2]
               rs == Responses(events')
           IN /\ settings' = settings
              /\ events'[1] = <<"open", name, settings>>
              /\ Len(rs) = 1
              /\ read_file' = read_file
              /\ write_file' = write_file
              /\ \/ /\ rs[1] = <<"OpenPortSuccess", name>>
                    /\ port' = <<[name |-> name, settings |-> settings]>>
                 \/ /\ rs[1][1] = "OpenPortError"
                    /\ port' = <<>>]_vars

\* C18: a connect(name, baud) sends exactly one response in the tick that
\* handles it: open-success(name) with the handle stored when the open
\* succeeds, open-error otherwise; the baud of the settings is the command's
\* baud afterwards in both cases.
C18_ConnectAnswersOnceAndSetsBaud ==
    [][Processing("ConnectToPort")
        => LET name == Head(to_port_chan)[2]
               baud == Head(to_port_chan)[3]
               rs == Responses(events')
           IN /\ pc' = "io"
              /\ Len(rs) = 1
              /\ settings' = [settings EXCEPT !.baud_rate = baud]
              /\ \/ /\ rs[1] = <<"OpenPortSuccess", name>>
                    /\ port' = <<[name |-> name, settings |-> settings']>>
                 \/ /\ rs[1][1] = "OpenPortError"
                    /\ port' = port]_vars

C18_Witness ==
    /\ Processed("ConnectToPort")
    /\ received[1].cmd[3] = 300
    /\ settings.baud_rate = 300
    /\ Len(Responses(events)) = 1
    /\ Responses(events)[1][1] = "OpenPortError"
    /\ port = <<>>

\* C19: at the end of every tick at most one device handle is open, also
\* after a connect or a change-port handled while a device was open: the
\* previous handle is released, not kept next to the new one.
C19_AtMostOneHandle ==
    /\ handles <= 1
    /\ (handles = 1) = IsSome(port)

C19_Witness ==
    /\ received # <<>>
    /\ received[1].cmd[1] \in {"ConnectToPort", "ChangePort"}
    /\ received[1].had_port
    /\ \E i \in DOMAIN Responses(events) : Responses(events)[i][1] = "OpenPortSuccess"
    /\ IsSome(port)
    /\ handles = 1

\* The pacer's writes among a sequence of events
FileWrites(evs) == SelectSeq(evs, LAMBDA ev : ev[1] = "write" /\ ev[2] = "file")

\* C20: cancel-send-file is idempotent on the state: after it no transfer is
\* active, whether or not one was; handling it a second time right away gives
\* the state the first gave; each handling sends sending-file-canceled (and
\* nothing else); and while no transfer is active the pacer writes no bytes
\* of a file to the device.
C20_CancelSendFileIdempotent ==
    [][/\ Processing("CancelSendFile")
           => LET once == CancelSendFile(TickStart)
                  twice == CancelSendFile([once EXCEPT !.events = <<>>])
              IN /\ read_file' = <<>>
                 /\ events' = << <<"send", <<"SendingFileCanceled">>>>, <<"callback">> >>
                 /\ twice = once
                 /\ port' = port
                 /\ write_file' = write_file
                 /\ settings' = settings
                 /\ bytes_read' = bytes_read
                 /\ bytes_total' = bytes_total
                 /\ last_percentage' = last_percentage
                 /\ pc' = "io"
       /\ (pc = "io" /\ pc' # "io" /\ read_file = <<>>)
           => FileWrites(Added(events')) = <<>>]_vars

C20_Witness ==
    /\ Processed("CancelSendFile")
    /\ received[1].had_read_file
    /\ read_file = <<>>
    /\ 0 < bytes_read /\ bytes_read < bytes_total
    /\ Responses(events) = << <<"SendingFileCanceled">> >>

\* How many responses of one kind are among a sequence of events
CountResponses(evs, tag) == Len(SelectSeq(Responses(evs), LAMBDA r : r[1] = tag))

\* The tick's pacer step wrote to the device and the write failed
PacerWriteFailed ==
    /\ IoStepTaken
    /\ \E i \in DOMAIN Responses(Added(events')) :
         Responses(Added(events'))[i] = <<"SendingFileError", "Failed to send bytes">>

\* C21: when the device write of a pacer step fails, the transfer is cleared
\* and exactly one sending-file-error (and no sending-file-complete) is sent;
\* the log sink and the link settings are as they were, and so are the device
\* handle and its settings unless the scan of the same tick finds the device
\* gone from the directory.
C21_WriteFailureClearsTransferOnly ==
    [][PacerWriteFailed =>
         /\ IsSome(read_file) /\ read_file' = <<>>
         /\ CountResponses(Added(events'), "SendingFileError") = 1
         /\ CountResponses(Added(events'), "SendingFileComplete") = 0
         /\ Len(FileWrites(Added(events'))) = 1
         /\ write_file' = write_file
         /\ settings' = settings
         /\ (~ScanDetectsUnplug => (port' = port /\ handles' = handles))]_vars

\* A failed pacer write has just been reported while a log is active: the
\* device is still open and the log is still active
C21_Witness ==
    /\ pc = "cmd"
    /\ CountResponses(events, "SendingFileError") = 1
    /\ \E i \in DOMAIN events : events[i][1] = "write" /\ events[i][2] = "file"
    /\ read_file = <<>>
    /\ IsSome(port)
    /\ IsSome(write_file)

\* The tick's pacer step read from the source and got end-of-file or an error
PacerReadEnded ==
    /\ IoStepTaken
    /\ \E i \in DOMAIN Added(events') :
         /\ Added(events')[i][1] = "read"
         /\ (Added(events')[i][3] = "Err" \/ Added(events')[i][4] = 0)

\* C22: when the source read of a pacer step returns end-of-file or an error,
\* the transfer is cleared, exactly one sending-file-complete and no
\* sending-file-error is sent, and the step writes no bytes of the file to
\* the device.
C22_ReadEndCompletesTransfer ==
    [][PacerReadEnded =>
         /\ IsSome(read_file) /\ read_file' = <<>>
         /\ CountResponses(Added(events'), "SendingFileComplete") = 1
         /\ CountResponses(Added(events'), "SendingFileError") = 0
         /\ CountResponses(Added(events'), "SendingFileProgress") = 0
         /\ FileWrites(Added(events')) = <<>>
         /\ bytes_read' = bytes_read]_vars

\* A read error has just ended a transfer of which no byte had been read
C22_Witness ==
    /\ pc = "cmd"
    /\ \E i \in DOMAIN events : events[i][1] = "read" /\ events[i][3] = "Err"
    /\ CountResponses(events, "SendingFileComplete") = 1
    /\ read_file = <<>>
    /\ bytes_read < bytes_total

\* The end of the file has just ended a transfer after its last byte
C22_WitnessEndOfFile ==
    /\ pc = "cmd"
    /\ \E i \in DOMAIN events :
         events[i][1] = "read" /\ events[i][3] = "Ok" /\ events[i][4] = 0
    /\ CountResponses(events, "SendingFileComplete") = 1
    /\ read_file = <<>>
    /\ bytes_read = bytes_total /\ bytes_total > 0

\* C23: a file-system failure while send-file is handled is confined to that
\* command: the thread is still running after the command and the device
\* handle it held is still open.
C23_SendFileFailureConfined ==
    [][Processing("SendFile") =>
         /\ panicked' = "none"
         /\ port' = port]_vars

\* C23, the part the code keeps: once fs::metadata has answered, a send-file
\* whose File::open fails leaves the thread running and the handle open.
C23_OpenFailureConfined ==
    [][(Receiving("SendFile") /\ pc' = "io" /\ read_file' = <<>>) =>
         /\ panicked' = "none"
         /\ port' = port]_vars

\* The step handles a log-to-file whose File::create fails
LogToFileCreateFails ==
    /\ Processing("LogToFile")
    /\ IsSome(port)
    /\ \E i \in DOMAIN events' : events'[i][1] = "create" /\ ~events'[i][3]

\* C24: a log-to-file processed while a device is open whose destination
\* cannot be opened sends a log-error response and leaves no log sink active.
C24_CreateFailureAnswered ==
    [][LogToFileCreateFails =>
         /\ CountResponses(events', "LogToFileError") = 1
         /\ write_file' = <<>>]_vars

\* C24, what the code does instead: the failed File::create is answered by
\* nothing (no response, no callback) and the sink is left as it was, so a
\* sink set up by an earlier log-to-file stays active.
C24_CreateFailureIsSilent ==
    [][LogToFileCreateFails =>
         /\ Responses(events') = <<>>
         /\ \A i \in DOMAIN events' : events'[i][1] # "callback"
         /\ write_file' = write_file
         /\ port' = port
         /\ panicked' = "none"]_vars

\* A string that writes a number: an optional "+" and then digits, one at least
ValidNumber(s) ==
    LET d == IF s # <<>> /\ s[1] = "+" THEN SubSeq(s, 2, Len(s)) ELSE s
    IN /\ d # <<>>
       /\ \A i \in DOMAIN d : d[i] \in {"0", "1", "2", "3", "4", "5", "6", "7", "8", "9"}

\* The step is a connect or change-baud call of the client whose baud string
\* is not a number
BadBaudCall ==
    /\ last_call' # last_call
    /\ last_call'[1].fn \in {"send_port_open_cmd", "send_port_change_baud_cmd"}
    /\ ~ValidNumber(last_call'[1].baud_rate)

\* C25: a connect or change-baud call whose baud string is not a valid number
\* returns the parse error and enqueues nothing: the command queue and the
\* whole state of the engine are as they were.
C25_BadBaudRejectedAtBoundary ==
    [][BadBaudCall =>
         /\ last_call'[1].result = <<"Err", "Parse">>
         /\ UNCHANGED <<to_port_chan, tickets, ncmds, pc, port, read_file, bytes_read,
                        bytes_total, last_percentage, write_file, settings,
                        send_elapsed, scan_elapsed, events, panicked, handles>>]_vars

\* A call with a baud string that is not a number has returned the parse
\* error while a device was open and a command was waiting in the queue
C25_Witness ==
    /\ last_call # <<>>
    /\ last_call[1].fn = "send_port_change_baud_cmd"
    /\ ~ValidNumber(last_call[1].baud_rate)
    /\ last_call[1].baud_rate # <<>>
    /\ last_call[1].result = <<"Err", "Parse">>
    /\ to_port_chan # <<>>
    /\ IsSome(port)
    /\ panicked = "none"

\* The responses the arm of a command may send
AnswersTo(tag) ==
    CASE tag = "ConnectToPort" -> {"OpenPortSuccess", "OpenPortError"}
      [] tag = "Disconnect" -> {"DisconnectSuccess"}
      [] OTHER -> {}

\* C26: a tick takes at most one command from the queue, and does not wait
\* when there is none; commands are taken in the order they were enqueued, so
\* the k-th command waiting at the start of a tick is the k-th to be handled
\* from then on, one per tick; the rest of the tick takes nothing from the
\* queue; and the responses of a tick's command arm answer the command taken
\* in that tick.
C26_OneCommandPerTickInOrder ==
    [][/\ \A k \in DOMAIN tickets : tickets[k] = nhandled + k
       /\ (pc = "cmd" /\ pc' = "io") =>
            IF to_port_chan = <<>>
            THEN /\ to_port_chan' = <<>>
                 /\ nhandled' = nhandled
                 /\ received' = <<>>
                 /\ Responses(events') = <<>>
            ELSE /\ to_port_chan' = Tail(to_port_chan)
                 /\ tickets' = Tail(tickets)
                 /\ nhandled' = nhandled + 1
                 /\ received' # <<>> /\ received'[1].cmd = Head(to_port_chan)
                 /\ \A i \in DOMAIN Responses(events') :
                      Responses(events')[i][1] \in AnswersTo(Head(to_port_chan)[1])
       /\ (pc = "io" /\ pc' = "cmd") =>
            /\ to_port_chan' = to_port_chan
            /\ nhandled' = nhandled]_vars

\* Three commands were issued and two of them waited together; the second of
\* the two has just been handled, in the tick after the first, and the third
\* is still waiting
C26_Witness ==
    /\ pc = "io"
    /\ nhandled = 2
    /\ ncmds = 3
    /\ tickets = <<3>>
    /\ received # <<>> /\ received[1].cmd = <<"Disconnect">>
    /\ to_port_chan # <<>> /\ to_port_chan[1][1] = "ConnectToPort"
    /\ Responses(events) = <<<<"DisconnectSuccess">>>>

\* Bits on the wire for one character: start bit, data bits, parity bit if
\* any, stop bits
BitsPerCharacter(s) ==
    1 + s.data_bits + (IF s.parity # "None" THEN 1 ELSE 0) + s.stop_bits

\* floor(baud / bits-per-character * quantum-seconds), the quantum being
\* loop_time ms
QuantumBytes(s) == (s.baud_rate * loop_time) \div (BitsPerCharacter(s) * 1000)

\* The sizes of the reads the pacer made among a sequence of events
ReadRequests(evs) == SelectSeq(evs, LAMBDA ev : ev[1] = "read")

\* C27: in every pacer step the number of bytes asked of the source is
\* floor(baud / bits-per-character * quantum-seconds), with bits-per-character
\* = 1 + data-bits + (1 if parity is not none) + stop-bits of the open device.
C27_RequestFollowsCharacterLength ==
    [][(IoStepTaken /\ ReadRequests(Added(events')) # <<>>) =>
         ReadRequests(Added(events'))[1][2] = QuantumBytes(port[1].settings)]_vars

\* C27, what the code computes: the character is taken to have 8 data bits
\* whatever the device's setting, and the request is the claimed one whenever
\* the device has 8 data bits.
C27_RequestAssumesEightDataBits ==
    [][(IoStepTaken /\ ReadRequests(Added(events')) # <<>>) =>
         /\ Len(ReadRequests(Added(events'))) = 1
         /\ ReadRequests(Added(events'))[1][2]
              = QuantumBytes([port[1].settings EXCEPT !.data_bits = 8])
         /\ (port[1].settings.data_bits = 8 =>
               ReadRequests(Added(events'))[1][2] = QuantumBytes(port[1].settings))]_vars

\* The values of the progress reports among a sequence of events
ProgressReports(evs) ==
    SelectSeq(Responses(evs), LAMBDA r : r[1] = "SendingFileProgress")

\* C28: within one transfer a sending-file-progress is sent only with a
\* percentage at least 5 above the last one reported (0 at the start of the
\* transfer), so the reports of a transfer never decrease and two in a row
\* differ by 5 at least.
C28_ProgressStepsByFive ==
    [][(IoStepTaken /\ ProgressReports(Added(events')) # <<>>) =>
         /\ Len(ProgressReports(Added(events'))) = 1
         /\ ProgressReports(Added(events'))[1][2] >= last_percentage + ProgressStep]_vars

\* C28, for a file whose content does not outgrow the size fs::metadata
\* reported: the report is floor(bytes-read / bytes-total * 100), at most 100
\* and at least 5 above the last one.
C28_ProgressStepsWhileSizeHolds ==
    [][(IoStepTaken /\ IsSome(read_file) /\ read_file[1].size <= bytes_total
          /\ ProgressReports(Added(events')) # <<>>) =>
         /\ Len(ProgressReports(Added(events'))) = 1
         /\ ProgressReports(Added(events'))[1][2] = (bytes_read' * 100) \div bytes_total
         /\ ProgressReports(Added(events'))[1][2] <= 100
         /\ ProgressReports(Added(events'))[1][2] >= last_percentage + ProgressStep
         /\ last_percentage' = ProgressReports(Added(events'))[1][2]]_vars

\* C29: the pacer never exceeds the rate of the link.  A tick makes at most
\* one pacer write, and then only when the sub-second part of the time since
\* the write before it is over one quantum; every tick lasts one quantum
\* (loop_time ms) at least; a write carries at most floor(byte-rate * 0.01)
\* bytes; so the bytes written for a transfer never exceed that number times
\* the pacer writes made, and a transfer of 10,000 bytes at 9600 baud, 8 data
\* bits, no parity, 1 stop bit is reported complete, with all its bytes
\* written, only after 1042 pacer steps or more.
C29_PacingWithinLinkRate ==
    [][/\ (IoStepTaken /\ FileWrites(Added(events')) # <<>>) =>
            /\ Len(FileWrites(Added(events'))) = 1
            /\ FileWrites(Added(events'))[1][3] <= QuantumBytes(port[1].settings)
            /\ SubsecMillis(send_elapsed) > loop_time
            /\ send_elapsed' >= loop_time
       /\ \A d \in PacingDurations : d >= loop_time
       /\ xfer'.written <= xfer'.writes * QuantumBytes(DefaultSettings)
       /\ (/\ IoStepTaken
           /\ CountResponses(Added(events'), "SendingFileComplete") = 1
           /\ xfer'.written = 10000)
            => xfer'.writes >= 1042]_vars

\* The 10,000-byte transfer has just been reported complete with every byte
\* written, after 1042 pacer writes or more
C29_Witness ==
    /\ pc = "cmd"
    /\ CountResponses(events, "SendingFileComplete") = 1
    /\ bytes_total = 10000
    /\ xfer.written = 10000
    /\ xfer.writes >= 1042
    /\ port # <<>> /\ port[1].settings = DefaultSettings

\* The log writes and the data responses among a sequence of events
LogAppends(evs) == SelectSeq(evs, LAMBDA ev : ev[1] = "append")

DataResponses(evs) == SelectSeq(Responses(evs), LAMBDA r : r[1] = "Data")

\* C30: while a log sink is active, the bytes of every data response of the
\* read path are handed to the sink's destination in the same tick, right
\* after the response, and nothing else ever is: a tick without a data
\* response, a tick without a sink and the command arms append nothing.  So
\* (when no write fails or falls short) the bytes the destination received
\* since the log-to-file was accepted are those of the data responses sent
\* since, in their order: the two byte counts never differ.
C30_LogFollowsDataResponses ==
    [][/\ IoStepTaken =>
            LET data == DataResponses(Added(events'))
                appends == LogAppends(Added(events'))
            IN /\ Len(data) <= 1
               /\ IF IsSome(write_file) /\ data # <<>>
                  THEN /\ Len(appends) = 1
                       /\ appends[1][2] = write_file[1]
                       /\ appends[1][3] = data[1][2]
                       /\ Added(events')[1] = <<"send", data[1]>>
                       /\ Added(events')[3] = appends[1]
                  ELSE appends = <<>>
       /\ (pc = "cmd" /\ pc' = "io") => LogAppends(events') = <<>>
       /\ logged' = 0]_vars

\* A tick has just sent a data response and appended its bytes, all written,
\* to the active log
C30_Witness ==
    /\ pc = "cmd"
    /\ IsSome(port) /\ IsSome(write_file)
    /\ DataResponses(events) # <<>>
    /\ LogAppends(events) = <<<<"append", write_file[1], DataResponses(events)[1][2], TRUE>>>>
    /\ logged = 0

\* C31: in every tick in which a transfer is active, a device is open and one
\* quantum or more has passed since the last send, the pacer reads from the
\* source, whatever the elapsed time is, one second and more included.
C31_PacerStepsWheneverQuantumElapsed ==
    [][(IoStepTaken /\ IsSome(port) /\ IsSome(read_file) /\ send_elapsed > loop_time)
         => ReadRequests(Added(events')) # <<>>]_vars

\* C31, what the code tests: the sub-second part of the elapsed time.  The
\* pacer reads exactly in the ticks in which that part is over one quantum.
C31_PacerStepsOnSubsecondPart ==
    [][(IoStepTaken /\ IsSome(port) /\ IsSome(read_file))
         => ((ReadRequests(Added(events')) # <<>>)
               <=> (SubsecMillis(send_elapsed) > loop_time))]_vars

\* The tick's pacer step ended the transfer with sending-file-complete and no
\* read of the source failed
CompleteWithoutReadError ==
    /\ IoStepTaken
    /\ CountResponses(Added(events'), "SendingFileComplete") = 1
    /\ \A i \in DOMAIN Added(events') :
         Added(events')[i][1] = "read" => Added(events')[i][3] = "Ok"

\* C32: when no read of the source fails, sending-file-complete is sent only
\* once every byte of the source has been read, at every baud rate, the ones
\* whose per-step byte count is 0 included.
C32_CompleteOnlyAfterWholeSource ==
    [][CompleteWithoutReadError =>
         /\ IsSome(read_file)
         /\ read_file[1].pos = read_file[1].size]_vars

\* C32, what the code does: the step that completes has asked for tx_data_len
\* bytes and got none, which is the end of the source when tx_data_len is
\* positive and says nothing about the source when it is 0.
C32_CompleteAfterEmptyRead ==
    [][CompleteWithoutReadError =>
         /\ IsSome(read_file)
         /\ ReadRequests(Added(events')) # <<>>
         /\ ReadRequests(Added(events'))[1][4] = 0
         /\ (ReadRequests(Added(events'))[1][2] > 0
               => read_file[1].pos = read_file[1].size)]_vars

\* The pacer writes of which the device took at least one byte
AcceptedWrites(evs) == SelectSeq(evs, LAMBDA ev : ev[1] = "accepted" /\ ev[2] > 0)

\* The log appends that handed at least one byte to the destination
NonEmptyAppends(evs) == SelectSeq(evs, LAMBDA ev : ev[1] = "append" /\ ev[3] > 0)

\* C33: a transfer and a log sink never outlive their session.  Once port has
\* been None, no byte of a file whose send-file was accepted before is written
\* to a device opened later, and no data read from a device opened later is
\* appended to a log destination set up before.
C33_NothingOutlivesItsSession ==
    [][IoStepTaken =>
         /\ (AcceptedWrites(Added(events')) # <<>> => ~orphans.transfer)
         /\ (NonEmptyAppends(Added(events')) # <<>> => ~orphans.log)]_vars

\* C33, what the code does: Disconnect ends the transfer and the log sink
\* with the session; the scan that finds the device gone and the ChangePort
\* whose open fails set port to None and leave both in place.
C33_OnlyDisconnectEndsBoth ==
    [][/\ (Processing("Disconnect") => (read_file' = <<>> /\ write_file' = <<>>))
       /\ ((orphans'.transfer /\ ~orphans.transfer) \/ (orphans'.log /\ ~orphans.log)
             => (ScanDetectsUnplug \/ Processing("ChangePort")))]_vars

\* C34: with the GTK client, which schedules one run of receive per callback
\* and takes one response at most in each run, every response is consumed in
\* the end: whenever all the scheduled runs have been made, no response is
\* waiting in from_port_chan.
C34_DrainsEmptyTheQueue ==
    (gui # <<>> /\ gui[1].alive /\ gui[1].idle = 0) => from_port_chan = <<>>

\* C34, what the code does: the responses waiting beyond the scheduled runs
\* of receive grow by one with each ChangePort that succeeds, whose response
\* is sent without a callback, and in no other step; no run of receive finds
\* the channel empty.
C34_BacklogGrowsOnChangePortOnly ==
    [][gui # <<>> =>
         /\ (Len(from_port_chan') - gui'[1].idle > Len(from_port_chan) - gui[1].idle
               => /\ Processing("ChangePort")
                  /\ Responses(events') = << <<"OpenPortSuccess", Taken(to_port_chan)[2]>> >>
                  /\ Callbacks(events') = 0)
         /\ Len(from_port_chan) >= gui[1].idle]_vars

\* The GTK client has received every response the thread has sent
AllConsumed == gui # <<>> /\ from_port_chan = <<>> /\ panicked = "none"

\* C35: once the client has consumed every response sent so far, its
\* connected_port is set exactly when the thread holds an open device, after
\* any sequence of commands, a connect that fails while a device is open
\* included; and no unexpected-disconnection is consumed while connected_port
\* is None, which is the case in which the handler's expect panics.
C35_ClientAgreesWithEngine ==
    /\ AllConsumed => (IsSome(gui[1].connected_port) <=> IsSome(port))
    /\ gui # <<>> => gui[1].alive

\* C35, what the code does: a connected_port that is set tells of an open
\* device, and the name is that of the device; an open device may go with
\* connected_port = None.
C35_ConnectedPortImpliesOpenDevice ==
    (AllConsumed /\ IsSome(gui[1].connected_port))
      => (IsSome(port) /\ port[1].name = gui[1].connected_port[1])

\* The settings a device can be open with
LinkSettings ==
    [baud_rate : Bauds \cup FastBauds, data_bits : DataBitsValues,
     flow_control : FlowControlValues, parity : ParityValues,
     stop_bits : StopBitsValues]

\* C36: for every baud rate the command interface takes and every parity and
\* stop-bits setting, baud / bits-per-character / 100 is at most the 1000
\* bytes of the transfer buffer, so that no pacer step slices past the buffer
\* and aborts the thread.
C36_StepFitsTheBuffer ==
    /\ panicked # "slice index out of range"
    /\ IsSome(port) => TxDataLen(port[1].settings.baud_rate,
                                 ByteAsSerialBits(port[1].settings)) <= BufLen

\* C36, what the code does: the step fits the buffer exactly for the baud
\* rates under (BufLen + 1) * 100 * bits-per-character, and a pacer step that
\* is survived has asked for BufLen bytes at most.
C36_StepFitsUpToOneMegabaud ==
    /\ \A s \in LinkSettings :
         (TxDataLen(s.baud_rate, ByteAsSerialBits(s)) <= BufLen)
           <=> (s.baud_rate < (BufLen + 1) * 100 * ByteAsSerialBits(s))
    /\ \A i \in DOMAIN events : events[i][1] = "read" => events[i][2] <= BufLen

\* C37: every sending-file-progress value is between 0 and 100, bytes_read
\* never exceeds bytes_total and last_percentage + 5 never overflows its 8
\* bits, after every sequence of commands, a send-file whose source cannot be
\* opened while another transfer is active included.
C37_ProgressWithinBounds ==
    /\ bytes_read <= bytes_total
    /\ \A i \in DOMAIN Responses(events) :
         Responses(events)[i][1] = "SendingFileProgress"
           => (Responses(events)[i][2] >= 0 /\ Responses(events)[i][2] <= 100)
    /\ last_percentage + ProgressStep <= U8Max
    /\ panicked # "attempt to add with overflow"

\* C37, what the code does: the counters are reset by every send-file that
\* finds a device open, whether or not its source opens, and the file being
\* read is replaced only when it opens; so bytes_read counts a part of what
\* has been read of the file at hand, and that file's size bounds it.
C37_CountersLagTheFile ==
    IsSome(read_file) => (bytes_read <= read_file[1].pos
                          /\ read_file[1].pos <= read_file[1].size)

\* What p.write returned for the pacer writes among a sequence of events
WriteReturns(evs) == SelectSeq(evs, LAMBDA ev : ev[1] = "accepted")

\* The tick's pacer step wrote to the device and went on with the transfer
PacerWriteWentOn ==
    /\ IoStepTaken
    /\ FileWrites(Added(events')) # <<>>
    /\ CountResponses(Added(events'), "SendingFileError") = 0

\* C38: during a transfer the device takes, in order, exactly the bytes read
\* from the source: the bytes of a step that goes on with the transfer have
\* all been taken, also when a write takes fewer bytes than it was offered.
C38_DeviceTakesWhatWasRead ==
    [][PacerWriteWentOn =>
         /\ Len(WriteReturns(Added(events'))) = 1
         /\ WriteReturns(Added(events'))[1][2] = FileWrites(Added(events'))[1][3]]_vars

\* C38, what the code does: a step offers the device, in one write, the bytes
\* it has just read, counts them as read and moves on in the source by as
\* many, whatever number the write returned.
C38_DeviceIsOfferedWhatWasRead ==
    [][PacerWriteWentOn =>
         /\ Len(FileWrites(Added(events'))) = 1
         /\ Len(ReadRequests(Added(events'))) = 1
         /\ FileWrites(Added(events'))[1][3] = ReadRequests(Added(events'))[1][4]
         /\ bytes_read' = bytes_read + FileWrites(Added(events'))[1][3]
         /\ read_file' = <<[read_file[1] EXCEPT !.pos = @ + FileWrites(Added(events'))[1][3]]>>
         /\ Len(WriteReturns(Added(events'))) = 1
         /\ WriteReturns(Added(events'))[1][2] <= FileWrites(Added(events'))[1][3]]_vars

\* The command of the tick is a connect and its open has failed
ConnectFailed ==
    /\ Processing("ConnectToPort")
    /\ CountResponses(events', "OpenPortError") = 1

\* C39: a connect whose open fails leaves the session as it was but for the
\* baud of the settings: the device that was open, if any, stays open, the
\* transfer, its counters and the log sink are untouched, and the one
\* response of the command is open-error.
C39_FailedConnectKeepsSession ==
    [][ConnectFailed =>
         /\ port' = port
         /\ handles' = handles
         /\ read_file' = read_file
         /\ bytes_read' = bytes_read
         /\ bytes_total' = bytes_total
         /\ last_percentage' = last_percentage
         /\ write_file' = write_file
         /\ settings' = [settings EXCEPT !.baud_rate = Taken(to_port_chan)[3]]
         /\ Len(Responses(events')) = 1
         /\ Callbacks(events') = 1
         /\ panicked' = "none"]_vars

\* A connect has just failed while a device was open and a transfer active:
\* the device is open and the transfer is active
C39_Witness ==
    /\ pc = "io"
    /\ received # <<>>
    /\ received[1].cmd[1] = "ConnectToPort"
    /\ received[1].had_port
    /\ received[1].had_read_file
    /\ CountResponses(events, "OpenPortError") = 1
    /\ IsSome(port)
    /\ IsSome(read_file)

\* The same with a log sink in place of the transfer
C39_WitnessLog ==
    /\ pc = "io"
    /\ received # <<>>
    /\ received[1].cmd[1] = "ConnectToPort"
    /\ received[1].had_write_file
    /\ CountResponses(events, "OpenPortError") = 1
    /\ IsSome(port)
    /\ IsSome(write_file)

\* A transfer announced by sending-file-started is active on an open device
TransferRunning == xfer.started /\ IsSome(read_file) /\ IsSome(port)

\* Sending-file-complete has been sent in this tick and no transfer is active
TransferCompleted ==
    read_file = <<>> /\ CountResponses(events, "SendingFileComplete") >= 1

\* What the claim sets aside: a further command received in this tick, a
\* device write that has failed, and a panic in a call into the operating
\* system or on the progress of a source that has grown while it was read
TransferDisturbed ==
    \/ (pc = "io" /\ received # <<>>)
    \/ CountResponses(events, "SendingFileError") >= 1
    \/ panicked \notin {"none", "slice index out of range"}

\* C40: with a device open, a finite source, no further command, no I/O
\* error and no unplug, a transfer that has been announced comes to its end:
\* after finitely many ticks sending-file-complete is sent and no transfer is
\* active.
C40_TransferTerminates ==
    TransferRunning ~> (TransferCompleted \/ TransferDisturbed)

\* C40, what the code does: the transfer comes to its end unless the pacer
\* step outgrows the buffer, which ends the thread.
C40_TransferTerminatesOrThreadDies ==
    TransferRunning ~> (TransferCompleted \/ TransferDisturbed \/ panicked # "none")

====
